---- MODULE Spec2Model ----
(***************************************************************************)
(* Hierarchical identity-based encryption (src/core.go) as a state machine. *)
(*                                                                         *)
(* The three pairing groups of bn256 are cyclic of the same prime order,   *)
(* so an element is modelled by its discrete logarithm: an integer modulo  *)
(* Order.  The group law (Add) is addition, ScalarMult is multiplication,  *)
(* Neg is negation and the bilinear pairing is the product of the two      *)
(* logarithms.  The source writes the groups additively, and so does the   *)
(* model.                                                                  *)
(*                                                                         *)
(* A Go pointer is a sequence: <<>> is nil and <<v>> points at v.          *)
(* An accumulator that is updated in place is a cell [ref, val], where ref *)
(* names the object its storage belongs to ("new" for a fresh one).        *)
(***************************************************************************)
EXTENDS Integers, Sequences, FiniteSets, TLC

VARIABLES params, master, key, ct, ret, enc, cacheWrites, precached

vars == <<params, master, key, ct, ret, enc, cacheWrites, precached>>

mainVars == <<params, master, key, ct, ret>>

raceVars == <<enc, cacheWrites, precached>>

\* bn256.Order, the prime order of G1, G2 and GT, scaled down.
Order == 3

\* The largest maximum depth l handed to Setup.
MaxDepth == 2

\* The number of goroutines that call Encrypt on the shared params.
NThreads == 2

\* The nil *bn256.GT of an empty Params.Pairing.
Nil == -1

Scalars == 0 .. (Order - 1)

\* Identity scalars (*big.Int); ScalarMult reduces them modulo Order.
IdVals == {3, 7}

\* Every identity path of at most n segments over the values vals.
Paths(vals, n) == UNION {[1 .. k -> vals] : k \in 0 .. n}

\* ---------------------------------------------------------------- bn256

ScalarMult(a, k) == (a * k) % Order

Add(a, b) == (a + b) % Order

Neg(a) == (Order - a) % Order

Pair(a, b) == (a * b) % Order

\* ------------------------------------------------------------- utilities

\* new(bn256.G1): a fresh object that receives the value v.
NewElem(v) == [ref |-> "new", val |-> v]

\* The cell behind the pointer params.G3.
G3Cell(p) == [ref |-> "G3", val |-> p.G3]

\* deepClone: an independent copy of a group element.
deepClone(c) == [ref |-> "new", val |-> c.val]

\* The value the object `name` holds once the accumulator c has been written:
\* c's value when c is that object, the old value otherwise.
Written(c, name, old) == IF c.ref = name THEN c.val ELSE old

\* for i := from; i != k; i++ { h := H[i]^id[i]; acc.Add(acc, h) }
RECURSIVE SumH(_, _, _, _)
SumH(H, id, i, acc) ==
  IF i > Len(id) THEN acc
  ELSE SumH(H, id, i + 1, Add(acc, ScalarMult(H[i], id[i])))

MaximumDepth(p) == Len(p.H)

DepthLeft(k) == Len(k.B)

\* --------------------------------------------------------------- Setup

\* The random reads of Setup, in order: g, alpha, g2, g3, h_1 .. h_l.  alpha is
\* rand.Int(random, bn256.Order), any scalar; the others are the exponents of
\* bn256.RandomG1 and RandomG2, which draw again until the scalar is not zero.
Tapes(alphas, l) ==
  {tape \in [1 .. (4 + l) -> Scalars] :
     /\ tape[2] \in alphas
     /\ \A i \in (1 .. (4 + l)) \ {2} : tape[i] # 0}

SetupPartial(l, tape, failAt) ==
  LET n == IF failAt = 0 THEN 4 + l ELSE failAt - 1
      rd(i) == IF i <= n THEN tape[i] ELSE 0
  IN  [st |-> IF failAt = 0 THEN "ok" ELSE "error",
       params |-> <<[G |-> rd(1), G1 |-> ScalarMult(rd(1), rd(2)), G2 |-> rd(3),
                     G3 |-> rd(4), H |-> [i \in 1 .. l |-> rd(4 + i)],
                     Pairing |-> Nil]>>,
       master |-> <<ScalarMult(rd(3), rd(2))>>,
       rdErr |-> failAt # 0]

\* Setup(random, l): failAt = 0 when every read succeeds, else the index of the
\* first read that fails.
Setup(l, tape, failAt) ==
  IF failAt \in 1 .. (4 + l)
  THEN [st |-> "error", params |-> <<>>, master |-> <<>>, rdErr |-> TRUE]
  ELSE LET g == tape[1]
           alpha == tape[2]
           g1 == ScalarMult(g, alpha)
           g2 == tape[3]
           g3 == tape[4]
           h == [i \in 1 .. l |-> tape[4 + i]]
       IN  [st |-> "ok",
            params |-> <<[G |-> g, G1 |-> g1, G2 |-> g2, G3 |-> g3, H |-> h,
                          Pairing |-> Nil]>>,
            master |-> <<ScalarMult(g2, alpha)>>,
            rdErr |-> FALSE]

\* -------------------------------------------------------- key derivation

\* What a call returns when it does not return a key.
NoKey(st, p, rdErr) ==
  [st |-> st, key |-> <<>>, G3 |-> p.G3, rdErr |-> rdErr]

\* product := deepClone(params.G3) of KeyGenFromMaster.
KGMProduct0(p) == deepClone(G3Cell(p))

KGMDelegationShort(p, k, r) ==
  [j \in 1 .. (Len(p.H) - k - 1) |-> ScalarMult(p.H[k + j], r)]

\* key.B of KeyGenFromMaster: B[j] = H[k+j]^r for j in 0 .. l-k-1.
KGMDelegation(p, k, r) ==
  [j \in 1 .. (Len(p.H) - k) |-> ScalarMult(p.H[k + j], r)]

\* if k > l { panic(...) } of KeyGenFromMaster.
KGMDepthExceeded(k, l) == k > l

KeyGenFromMaster(p, msk, id, rd) ==
  LET k == Len(id)
      l == Len(p.H)
  IN  IF KGMDepthExceeded(k, l) THEN NoKey("panic", p, FALSE)
      ELSE IF rd = <<>> THEN NoKey("error", p, TRUE)
      ELSE LET r == rd[1]
               product0 == KGMProduct0(p)
               product == [product0 EXCEPT
                             !.val = ScalarMult(SumH(p.H, id, 1, product0.val), r)]
           IN  [st |-> "ok",
                key |-> <<[A0 |-> Add(msk, product.val),
                           A1 |-> ScalarMult(p.G, r),
                           B |-> KGMDelegation(p, k, r)]>>,
                G3 |-> Written(product, "G3", p.G3),
                rdErr |-> FALSE]

\* What KeyGenFromParent returns when it does not return a key.
NoChild(st, p, par, rdErr) ==
  [st |-> st, key |-> <<>>, G3 |-> p.G3, parent |-> par, rdErr |-> rdErr]

\* key.A0 = new(bn256.G1).Add(parent.A0, bpower)
KGPA0(par, bpower) == NewElem(Add(par.A0, bpower))

KGPMismatchTooShallowOnly(par, k, l) == DepthLeft(par) < l - k + 1

\* if parent.DepthLeft() != l-k+1 { panic(...) }
KGPMismatch(par, k, l) == DepthLeft(par) # l - k + 1

KGPDelegationUnshifted(p, par, k, t) ==
  [j \in 1 .. (Len(p.H) - k) |-> Add(par.B[j], ScalarMult(p.H[k + j], t))]

\* key.B of KeyGenFromParent: B[j] = parent.B[j+1] + H[k+j]^t.
KGPDelegation(p, par, k, t) ==
  [j \in 1 .. (Len(p.H) - k) |-> Add(par.B[j + 1], ScalarMult(p.H[k + j], t))]

KeyGenFromParent(p, par, id, rd) ==
  LET k == Len(id)
      l == Len(p.H)
  IN  IF k > l THEN NoChild("panic", p, par, FALSE)
      ELSE IF KGPMismatch(par, k, l) THEN NoChild("panic", p, par, FALSE)
      ELSE IF rd = <<>> THEN NoChild("error", p, par, TRUE)
      \* id[k-1] with k = 0: index out of range
      ELSE IF k = 0 THEN NoChild("panic", p, par, FALSE)
      ELSE LET t == rd[1]
               product0 == deepClone(G3Cell(p))
               product == [product0 EXCEPT
                             !.val = ScalarMult(SumH(p.H, id, 1, product0.val), t)]
               bpower == ScalarMult(par.B[1], id[k])
               a0 == KGPA0(par, bpower)
               a0f == [a0 EXCEPT !.val = Add(a0.val, product.val)]
               a1 == Add(par.A1, ScalarMult(p.G, t))
           IN  [st |-> "ok",
                key |-> <<[A0 |-> a0f.val, A1 |-> a1,
                           B |-> KGPDelegation(p, par, k, t)]>>,
                G3 |-> Written(product, "G3", p.G3),
                parent |-> [par EXCEPT !.A0 = Written(a0f, "parent.A0", par.A0)],
                rdErr |-> FALSE]

\* ------------------------------------------------- encryption, decryption

PrecacheSkip(p) == p

PrecacheFromG(p) ==
  IF p.Pairing = Nil THEN [p EXCEPT !.Pairing = Pair(p.G2, p.G)] ELSE p

\* Params.Precache
Precache(p) ==
  IF p.Pairing = Nil THEN [p EXCEPT !.Pairing = Pair(p.G2, p.G1)] ELSE p

\* params.Pairing = bn256.Pair(params.G2, params.G1)
FillPairing(p) == [p EXCEPT !.Pairing = Pair(p.G2, p.G1)]

\* if params.Pairing == nil { params.Pairing = bn256.Pair(params.G2, params.G1) }
LazyPairing(p) == IF p.Pairing = Nil THEN FillPairing(p) ELSE p

EncryptC0Alias(p) == G3Cell(p)

\* ciphertext.C = deepClone(params.G3)
EncryptC0(p) == deepClone(G3Cell(p))

EncryptMaskFromG(q, s) == ScalarMult(Pair(q.G2, q.G), s)

\* ciphertext.A.ScalarMult(params.Pairing, s)
EncryptMask(q, s) == ScalarMult(q.Pairing, s)

Encrypt(p, id, m, rd) ==
  LET k == Len(id)
      l == Len(p.H)
  IN  IF rd = <<>> THEN [st |-> "error", ct |-> <<>>, params |-> p, rdErr |-> TRUE]
      ELSE LET s == rd[1]
               q == LazyPairing(p)
               c0 == EncryptC0(p)
               \* params.H[i] with i = l: index out of range
               upto == IF k > l THEN SubSeq(id, 1, l) ELSE id
               c1 == [c0 EXCEPT !.val = SumH(p.H, upto, 1, c0.val)]
               c == [c1 EXCEPT !.val = ScalarMult(c1.val, s)]
           IN  IF k > l
               THEN [st |-> "panic", ct |-> <<>>,
                     params |-> [q EXCEPT !.G3 = Written(c1, "G3", p.G3)],
                     rdErr |-> FALSE]
               ELSE [st |-> "ok",
                     ct |-> <<[A |-> Add(EncryptMask(q, s), m),
                               B |-> ScalarMult(p.G, s),
                               C |-> c.val]>>,
                     params |-> [q EXCEPT !.G3 = Written(c, "G3", p.G3)],
                     rdErr |-> FALSE]

DecryptNoNeg(k, c) ==
  Add(c.A, Add(Pair(c.C, k.A1), Pair(k.A0, c.B)))

Decrypt(k, c) ==
  LET plaintext == Pair(c.C, k.A1)
      invdenominator == Neg(Pair(k.A0, c.B))
  IN  Add(c.A, Add(plaintext, invdenominator))

\* ------------------------------------------------------------------ state

Threads == 1 .. NThreads

IdleThread == [pc |-> "idle", id |-> <<>>, m |-> 0, s |-> 0, saw |-> FALSE, out |-> <<>>]

\* The last call: its status ("ok", "error" for a returned err, "panic"), the
\* identity it was asked for, the value it returned (<<>> for nil), whether a
\* read of the random source failed during it, and the parent key object as a
\* KeyGenFromParent call left it (<<>> for the other calls).
Returned(op, st, id, val, rdErr, par) ==
  [op |-> op, st |-> st, id |-> id, val |-> val, rdErr |-> rdErr, parent |-> par]

Init ==
  /\ params = <<>>
  /\ master = <<>>
  /\ key = <<>>
  /\ ct = <<>>
  /\ ret = Returned("none", "ok", <<>>, <<>>, FALSE, <<>>)
  /\ enc = [t \in Threads |-> IdleThread]
  /\ cacheWrites = 0
  /\ precached = FALSE

\* A panic ends the program.
Running == ret.st # "panic"

\* id names a child of the identity pid.
IsChildOf(id, pid) ==
  /\ Len(id) = Len(pid) + 1
  /\ \A i \in 1 .. Len(pid) : id[i] = pid[i]

\* The outcomes of one read of the random source: an error or a scalar.
Reads(vals) == {<<>>} \cup {<<v>> : v \in vals}

\* ---------------------------------------------------------------- actions

SetupAct(l, tape, failAt) ==
  /\ Running
  /\ params = <<>>
  /\ LET res == Setup(l, tape, failAt)
     IN  /\ params' = res.params
         /\ master' = res.master
         /\ ret' = Returned("Setup", res.st, <<>>, res.params, res.rdErr, <<>>)
  /\ UNCHANGED <<key, ct, raceVars>>

PrecacheAct ==
  /\ Running
  /\ params # <<>>
  /\ params' = <<Precache(params[1])>>
  /\ ret' = Returned("Precache", "ok", <<>>, <<>>, FALSE, <<>>)
  /\ UNCHANGED <<master, key, ct, raceVars>>

KeyGenFromMasterAct(id, rd) ==
  /\ Running
  /\ params # <<>>
  /\ LET res == KeyGenFromMaster(params[1], master[1], id, rd)
     IN  /\ params' = <<[params[1] EXCEPT !.G3 = res.G3]>>
         /\ ret' = Returned("KeyGenFromMaster", res.st, id, res.key, res.rdErr, <<>>)
         /\ key' = IF res.st = "ok"
                   THEN <<[A0 |-> res.key[1].A0, A1 |-> res.key[1].A1,
                           B |-> res.key[1].B, id |-> id, proper |-> TRUE,
                           via |-> "master"]>>
                   ELSE key
  /\ UNCHANGED <<master, ct, raceVars>>

\* The key in hand is the parent, and the child replaces it.  A key records the
\* identity it was asked for, whether it was derived as the scheme prescribes
\* (from the master key, or from a key so derived for its parent identity) and by
\* which of the two entry points.
KeyGenFromParentAct(id, rd) ==
  /\ Running
  /\ params # <<>>
  /\ key # <<>>
  /\ LET par == [A0 |-> key[1].A0, A1 |-> key[1].A1, B |-> key[1].B]
         res == KeyGenFromParent(params[1], par, id, rd)
     IN  /\ params' = <<[params[1] EXCEPT !.G3 = res.G3]>>
         /\ ret' = Returned("KeyGenFromParent", res.st, id, res.key, res.rdErr,
                            <<res.parent>>)
         /\ key' = IF res.st = "ok"
                   THEN <<[A0 |-> res.key[1].A0, A1 |-> res.key[1].A1,
                           B |-> res.key[1].B, id |-> id,
                           proper |-> key[1].proper /\ IsChildOf(id, key[1].id),
                           via |-> "parent"]>>
                   ELSE key
  /\ UNCHANGED <<master, ct, raceVars>>

EncryptAct(id, m, rd) ==
  /\ Running
  /\ params # <<>>
  /\ LET res == Encrypt(params[1], id, m, rd)
     IN  /\ params' = <<res.params>>
         /\ ret' = Returned("Encrypt", res.st, id, res.ct, res.rdErr, <<>>)
         /\ ct' = IF res.st = "ok"
                  THEN <<[A |-> res.ct[1].A, B |-> res.ct[1].B, C |-> res.ct[1].C,
                          id |-> id, m |-> m]>>
                  ELSE ct
  /\ UNCHANGED <<master, key, raceVars>>

DecryptAct ==
  /\ Running
  /\ key # <<>>
  /\ ct # <<>>
  /\ ret' = Returned("Decrypt", "ok", key[1].id, <<Decrypt(key[1], ct[1])>>, FALSE, <<>>)
  /\ UNCHANGED <<params, master, key, ct, raceVars>>

\* ------------------------------------------- the program, every call allowed

\* Spec explores every call, the failing ones included, over few values: the
\* alpha Setup draws, the scalars r, t, s the other calls draw, the identity
\* values and the messages.  SpecAlg below explores every value.
OpsAlphas == {1, 2}

OpsScalars == {2}

OpsIdVals == {7}

OpsMsgs == {1}

Next ==
  \/ /\ params = <<>>
     /\ \E l \in 1 .. MaxDepth :
          \E tape \in Tapes(OpsAlphas, l), failAt \in 0 .. (4 + l) :
            SetupAct(l, tape, failAt)
  \/ PrecacheAct
  \/ /\ params # <<>>
     /\ \E id \in Paths(OpsIdVals, MaxDepth + 1), rd \in Reads(OpsScalars) :
          KeyGenFromMasterAct(id, rd)
  \/ /\ key # <<>>
     /\ \E id \in Paths(OpsIdVals, MaxDepth + 1), rd \in Reads(OpsScalars) :
          KeyGenFromParentAct(id, rd)
  \/ /\ params # <<>>
     /\ \E id \in Paths(OpsIdVals, MaxDepth + 1), m \in OpsMsgs, rd \in Reads(OpsScalars) :
          EncryptAct(id, m, rd)
  \/ DecryptAct

Spec == Init /\ [][Next]_vars

\* ----------------------- the scheme, every random choice, well-formed calls

\* One hierarchy, one chain of keys down one path, then one ciphertext.
NextAlg ==
  \/ /\ params = <<>>
     /\ \E l \in 1 .. MaxDepth : \E tape \in Tapes(Scalars, l) : SetupAct(l, tape, 0)
  \/ /\ params # <<>>
     /\ key = <<>>
     /\ ct = <<>>
     /\ \E id \in Paths(IdVals, MaximumDepth(params[1])), r \in Scalars :
          KeyGenFromMasterAct(id, <<r>>)
  \/ /\ key # <<>>
     /\ ct = <<>>
     /\ Len(key[1].id) < MaximumDepth(params[1])
     /\ \E x \in IdVals, t \in Scalars :
          KeyGenFromParentAct(Append(key[1].id, x), <<t>>)
  \/ /\ key # <<>>
     /\ ct = <<>>
     /\ \E id \in Paths(IdVals, MaximumDepth(params[1])), m \in Scalars, s \in Scalars :
          EncryptAct(id, m, <<s>>)
  \/ DecryptAct

SpecAlg == Init /\ [][NextAlg]_vars

\* ------------------------------ concurrent Encrypt calls on shared params

\* Encrypt, one goroutine t, statement by statement: the read of the random
\* source, the test of params.Pairing, the write of params.Pairing, the rest.
\* params.Pairing is one pointer-sized word, so an unsynchronised read of it
\* sees nil or a pointer some goroutine has stored: the outcomes of the race are
\* the interleavings of these steps.
EncCall(t, id, m, rd) ==
  /\ params # <<>>
  /\ enc[t].pc = "idle"
  /\ enc' = [enc EXCEPT ![t] =
               IF rd = <<>> THEN [@ EXCEPT !.pc = "failed", !.id = id, !.m = m]
               ELSE [@ EXCEPT !.pc = "test", !.id = id, !.m = m, !.s = rd[1]]]
  /\ UNCHANGED <<mainVars, cacheWrites, precached>>

EncTest(t) ==
  /\ enc[t].pc = "test"
  /\ enc' = [enc EXCEPT ![t] =
               IF params[1].Pairing = Nil
               THEN [@ EXCEPT !.pc = "write", !.saw = TRUE]
               ELSE [@ EXCEPT !.pc = "mask"]]
  /\ UNCHANGED <<mainVars, cacheWrites, precached>>

EncWrite(t) ==
  /\ enc[t].pc = "write"
  /\ params' = <<FillPairing(params[1])>>
  /\ cacheWrites' = cacheWrites + 1
  /\ enc' = [enc EXCEPT ![t].pc = "mask"]
  /\ UNCHANGED <<master, key, ct, ret, precached>>

EncFinish(t) ==
  /\ enc[t].pc = "mask"
  /\ enc' = [enc EXCEPT ![t] =
               [@ EXCEPT !.pc = "done",
                         !.out = Encrypt(params[1], enc[t].id, enc[t].m, <<enc[t].s>>).ct]]
  /\ UNCHANGED <<mainVars, cacheWrites, precached>>

\* Precache, called and completed before any goroutine calls Encrypt.
PrecacheFirst ==
  /\ params # <<>>
  /\ ~precached
  /\ \A t \in Threads : enc[t].pc = "idle"
  /\ params' = <<Precache(params[1])>>
  /\ precached' = TRUE
  /\ UNCHANGED <<master, key, ct, ret, enc, cacheWrites>>

RaceScalars == {1, 2}

RaceIds == {<<7>>}

RaceMsgs == {1}

NextRace ==
  \/ /\ params = <<>>
     /\ \E l \in 1 .. MaxDepth : \E tape \in Tapes(RaceScalars, l) : SetupAct(l, tape, 0)
  \/ PrecacheFirst
  \/ \E t \in Threads, id \in RaceIds, m \in RaceMsgs, rd \in Reads(RaceScalars) :
       EncCall(t, id, m, rd)
  \/ \E t \in Threads : EncTest(t)
  \/ \E t \in Threads : EncWrite(t)
  \/ \E t \in Threads : EncFinish(t)

SpecRace == Init /\ [][NextRace]_vars

\* ----------------------------------------------------------------- claims

\* The key and the ciphertext of the last Decrypt call, and what it returned.
Decrypted == ret.op = "Decrypt"

Plain == ret.val[1]

\* g3 * prod H[i]^id[i], the point an identity path hashes to.
HashPoint(id) == SumH(params[1].H, id, 1, params[1].G3)

\* C1: a key issued by KeyGenFromMaster for a non-empty path of at most l
\* segments decrypts every ciphertext made by Encrypt for that path to the
\* message, whatever Setup, KeyGenFromMaster and Encrypt drew at random.
C1_RoundTrip ==
  (/\ Decrypted
   /\ key[1].via = "master"
   /\ Len(key[1].id) > 0
   /\ ct[1].id = key[1].id) => Plain = ct[1].m

C1_Witness ==
  /\ Decrypted
  /\ key[1].via = "master"
  /\ Len(key[1].id) = 2
  /\ ct[1].id = key[1].id
  /\ ct[1].B # 0
  /\ key[1].A1 # 0
  /\ ct[1].A # ct[1].m
  /\ Plain = ct[1].m

\* C2: a key reached by KeyGenFromParent calls, each from the key of the parent
\* identity, starting at a key issued by KeyGenFromMaster, decrypts every
\* ciphertext for its path to the message, which is also what every key issued
\* for that path by KeyGenFromMaster directly decrypts it to.
C2_DelegationEquivalence ==
  (/\ Decrypted
   /\ key[1].via = "parent"
   /\ key[1].proper
   /\ ct[1].id = key[1].id) =>
     /\ Plain = ct[1].m
     /\ \A r \in Scalars :
          Decrypt(KeyGenFromMaster(params[1], master[1], key[1].id, <<r>>).key[1],
                  ct[1]) = Plain

C2_Witness ==
  /\ Decrypted
  /\ key[1].via = "parent"
  /\ key[1].proper
  /\ Len(key[1].id) = 2
  /\ ct[1].id = key[1].id
  /\ ct[1].B # 0
  /\ key[1].A1 # 0
  /\ params[1].H[1] # params[1].H[2]
  /\ Plain = ct[1].m

\* C5 as stated: a key for one identity never decrypts a ciphertext for another
\* identity to the message.
C5_NeverDecryptsOther ==
  (/\ Decrypted
   /\ key[1].proper
   /\ key[1].id # ct[1].id) => Plain # ct[1].m

\* C5, amended: a key for one identity decrypts a ciphertext for another
\* identity to something other than the message exactly when the ciphertext's B
\* (g^s) and the key's A1 are not the identity element and the two paths hash to
\* different points.  With l = 2, the key of [3] issued by KeyGenFromMaster fails
\* on a ciphertext for [3,7] under those conditions, and its child for [3,7] has
\* no depth left and decrypts that ciphertext to the message.
C5_CrossIdentity ==
  Decrypted =>
    /\ (key[1].proper /\ key[1].id # ct[1].id) =>
         (Plain # ct[1].m <=>
            /\ ct[1].B # 0
            /\ key[1].A1 # 0
            /\ HashPoint(key[1].id) # HashPoint(ct[1].id))
    /\ (/\ MaximumDepth(params[1]) = 2
        /\ key[1].id = <<3>>
        /\ key[1].via = "master"
        /\ ct[1].id = <<3, 7>>
        /\ ct[1].B # 0
        /\ key[1].A1 # 0
        /\ params[1].H[2] # 0) => Plain # ct[1].m
    /\ (/\ MaximumDepth(params[1]) = 2
        /\ key[1].id = <<3, 7>>
        /\ key[1].via = "parent"
        /\ ct[1].id = <<3, 7>>) => (DepthLeft(key[1]) = 0 /\ Plain = ct[1].m)

C5_Witness ==
  /\ Decrypted
  /\ MaximumDepth(params[1]) = 2
  /\ key[1].id = <<3>>
  /\ key[1].via = "master"
  /\ ct[1].id = <<3, 7>>
  /\ ct[1].B # 0
  /\ key[1].A1 # 0
  /\ params[1].H[2] # 0
  /\ Plain # ct[1].m

\* C3: every key returned for an identity of depth k has exactly l - k
\* delegation slots, DepthLeft() included, and a request to either entry point
\* for an identity deeper than l fails and returns no key.
C3_DepthInvariant ==
  /\ key # <<>> =>
       /\ DepthLeft(key[1]) = MaximumDepth(params[1]) - Len(key[1].id)
       /\ Len(key[1].B) = MaximumDepth(params[1]) - Len(key[1].id)
  /\ (ret.op \in {"KeyGenFromMaster", "KeyGenFromParent"} /\ ret.st = "ok") =>
       DepthLeft(ret.val[1]) = MaximumDepth(params[1]) - Len(ret.id)
  /\ (/\ ret.op \in {"KeyGenFromMaster", "KeyGenFromParent"}
      /\ Len(ret.id) > MaximumDepth(params[1])) =>
       (ret.st = "panic" /\ ret.val = <<>>)

C3_Witness ==
  /\ ret.op = "KeyGenFromParent"
  /\ Len(ret.id) = MaximumDepth(params[1]) + 1
  /\ ret.st = "panic"
  /\ key # <<>>
  /\ key[1].via = "parent"
  /\ Len(key[1].id) = MaximumDepth(params[1])
  /\ DepthLeft(key[1]) = 0

\* C4: KeyGenFromParent, asked for an identity of depth k <= l with a parent
\* whose DepthLeft() is not l - k + 1, fails and returns no key; so does every
\* call with the empty identity.
C4_ParentMismatch ==
  (ret.op = "KeyGenFromParent" /\ Len(ret.id) <= MaximumDepth(params[1])) =>
    /\ DepthLeft(ret.parent[1]) # MaximumDepth(params[1]) - Len(ret.id) + 1 =>
         (ret.st = "panic" /\ ret.val = <<>>)
    /\ Len(ret.id) = 0 => (ret.st = "panic" /\ ret.val = <<>>)

C4_Witness ==
  /\ ret.op = "KeyGenFromParent"
  /\ MaximumDepth(params[1]) = 2
  /\ Len(ret.id) = 2
  /\ DepthLeft(ret.parent[1]) = 2
  /\ ret.st = "panic"
  /\ ret.val = <<>>

\* The cache slot of the params in hand.
Cache == params[1].Pairing

\* C6: the pairing cache is absent or e(G2, G1); Setup leaves it absent; once
\* present it keeps its value; only Precache and Encrypt write it; Precache on
\* params whose cache is present changes nothing.
C6_CacheWriteOnce ==
  /\ [](params # <<>> => Cache \in {Nil, Pair(params[1].G2, params[1].G1)})
  /\ [][(params = <<>> /\ params' # <<>>) => params'[1].Pairing = Nil]_vars
  /\ [][(params # <<>> /\ Cache # Nil) => params'[1].Pairing = Cache]_vars
  /\ [][(params # <<>> /\ params'[1].Pairing # Cache) =>
          ret'.op \in {"Precache", "Encrypt"}]_vars
  /\ [][(params # <<>> /\ Cache # Nil /\ ret'.op = "Precache") =>
          params' = params]_vars

C6_Witness ==
  /\ ret.op = "Precache"
  /\ ct # <<>>
  /\ key # <<>>
  /\ Cache = Pair(params[1].G2, params[1].G1)
  /\ Cache # 0

\* C8: a call during which a read of the random source fails returns an error
\* and nothing else, and leaves the params (the pairing cache included), the
\* master key, the keys and the ciphertexts as they were; Setup returns an error
\* only when a read failed.
C8_EntropyFailure ==
  /\ [](ret.rdErr => (ret.st = "error" /\ ret.val = <<>>))
  /\ [](ret.st = "error" => ret.val = <<>>)
  /\ []((ret.op = "Setup" /\ ret.st # "ok") =>
          (ret.rdErr /\ params = <<>> /\ master = <<>>))
  /\ [][ret'.rdErr =>
          (params' = params /\ master' = master /\ key' = key /\ ct' = ct)]_vars

C8_Witness ==
  /\ ret.op = "Encrypt"
  /\ ret.rdErr
  /\ ret.st = "error"
  /\ key # <<>>
  /\ Cache = Nil

\* The fields a key holds in the program.
KeyFields(k) == [A0 |-> k.A0, A1 |-> k.A1, B |-> k.B]

\* C9: a successful KeyGenFromMaster, KeyGenFromParent, Encrypt or Decrypt call
\* leaves G, G1, G2, G3 and H of the params, the master key, the parent key, and
\* the key and the ciphertext handed to Decrypt as they were; the pairing cache
\* is the only field of an input a call changes, and only Encrypt does; G3 never
\* changes once Setup has returned.
C9_InputsReadOnly ==
  /\ [][(ret'.st = "ok" /\ ret'.op \in {"KeyGenFromMaster", "KeyGenFromParent",
                                        "Encrypt", "Decrypt"}) =>
          /\ [params'[1] EXCEPT !.Pairing = Nil] = [params[1] EXCEPT !.Pairing = Nil]
          /\ master' = master
          /\ ret'.op # "Encrypt" => params' = params
          /\ ret'.op = "KeyGenFromParent" => ret'.parent[1] = KeyFields(key[1])
          /\ ret'.op = "Decrypt" => (key' = key /\ ct' = ct)
          /\ ret'.op = "Encrypt" => key' = key
          /\ ret'.op \in {"KeyGenFromMaster", "KeyGenFromParent"} => ct' = ct]_vars
  /\ [][params # <<>> => params'[1].G3 = params[1].G3]_vars

C9_Witness ==
  /\ ret.op = "KeyGenFromParent"
  /\ ret.st = "ok"
  /\ ct # <<>>
  /\ Cache # Nil
  /\ ret.parent[1].A0 # key[1].A0

\* C10 as stated: Encrypt with a path longer than l returns no ciphertext and
\* leaves the params, the pairing cache included, as they were.
C10_EncryptTooDeep ==
  [][(ret'.op = "Encrypt" /\ Len(ret'.id) > MaximumDepth(params[1])) =>
       (ret'.st # "ok" /\ ret'.val = <<>> /\ ct' = ct /\ params' = params)]_vars

\* C7: when Precache has completed before any goroutine calls Encrypt, no
\* Encrypt call sees the cache absent and none writes the slot; a goroutine
\* writes the slot only after it has seen the cache absent, and what it writes
\* is e(G2, G1).  Without Precache two calls can both see the cache absent and
\* both write the slot: the state C7_Race.
C7_CacheRace ==
  /\ precached => (cacheWrites = 0 /\ \A t \in Threads : ~enc[t].saw)
  /\ cacheWrites <= Cardinality({t \in Threads : enc[t].saw /\ enc[t].pc # "write"})
  /\ \A t \in Threads : enc[t].pc = "write" => enc[t].saw
  /\ params # <<>> => Cache \in {Nil, Pair(params[1].G2, params[1].G1)}
  /\ \A t \in Threads : enc[t].pc \in {"mask", "done"} => Cache # Nil

C7_Race ==
  /\ ~precached
  /\ enc[1].saw
  /\ enc[2].saw
  /\ enc[1].pc = "done"
  /\ enc[2].pc = "done"
  /\ cacheWrites = 2

====
